---- MODULE Spec2Model ----
(***************************************************************************)
(* Model of the allocation model (src/core), the RAG cycle detection       *)
(* (src/detection/detector.py) and the resolution engine                   *)
(* (src/resolution/resolver.py) of the deadlock simulator.                 *)
(*                                                                         *)
(* Python lists are sequences, dictionaries are functions whose DOMAIN is  *)
(* the set of keys.  A method is an operator from the objects before the   *)
(* call to the value returned and the objects after it; a call is one      *)
(* action.                                                                 *)
(***************************************************************************)
EXTENDS Integers, Sequences, FiniteSets, TLC

\* ------------------------------------------------------------------ bounds
MaxPid == 1         \* process ids are 0..MaxPid
NumResources == 2   \* resource ids are 1..NumResources
MaxTotal == 2       \* total_instances of a resource is in 1..MaxTotal
MaxHeld == 2        \* request_resource is not called once len(resources_held) reaches MaxHeld

Instances == 1..MaxTotal   \* the instance counts passed to request/release

VARIABLES
    status,               \* Process.status, per pid
    resources_held,       \* Process.resources_held, per pid: a list of rids
    resources_requested,  \* Process.resources_requested, per pid: a list of rids
    total_instances,      \* Resource.total_instances, per rid
    available_instances,  \* Resource.available_instances, per rid
    allocated_to,         \* Resource.allocated_to, per rid: a dictionary pid -> count
    snapshot,             \* original_snapshot of test_resolution_strategies, NoSnapshot outside it
    time                  \* System.time

vars == <<status, resources_held, resources_requested, total_instances,
          available_instances, allocated_to, snapshot, time>>

\* ----------------------------------------------------------------- helpers
Range(s) == {s[i] : i \in 1..Len(s)}

\* list.remove(x): drops the first occurrence of x
RECURSIVE ListRemove(_, _)
ListRemove(s, x) ==
    IF s = <<>> THEN <<>>
    ELSE IF Head(s) = x THEN Tail(s)
    ELSE <<Head(s)>> \o ListRemove(Tail(s), x)

\* dict.get(k, 0)
DictGet(d, k) == IF k \in DOMAIN d THEN d[k] ELSE 0

\* del d[k]
DictDel(d, k) == [q \in (DOMAIN d) \ {k} |-> d[q]]

\* d[k] = v
DictSet(d, k, v) == [q \in (DOMAIN d) \cup {k} |-> IF q = k THEN v ELSE d[q]]

\* sum(d.values())
RECURSIVE DictSum(_)
DictSum(d) ==
    IF DOMAIN d = {} THEN 0
    ELSE LET k == CHOOSE q \in DOMAIN d : TRUE
         IN  d[k] + DictSum(DictDel(d, k))

EmptyDict == [q \in {} |-> 0]

\* a returned bool as the caller sees it, next to the exceptions a call can raise
Bool(b) == IF b THEN "True" ELSE "False"

\* The objects of the System as one value, so that a method is an operator
\* from the state before the call to the state after it.
\* System.processes.keys() and System.resources.keys()
Pids == DOMAIN status
Rids == DOMAIN total_instances

World == [status |-> status,
          held |-> resources_held,
          requested |-> resources_requested,
          total |-> total_instances,
          available |-> available_instances,
          allocated |-> allocated_to]

\* --------------------------------------------------------------- Resource
is_available(w, r) == w.available[r] > 0

\* allocate with the test "available_instances > instances"
allocate_strict(w, r, pid, instances) ==
    IF w.available[r] > instances
    THEN [ok |-> TRUE,
          w  |-> [w EXCEPT !.allocated[r] = DictSet(@, pid, DictGet(@, pid) + instances),
                           !.available[r] = @ - instances]]
    ELSE [ok |-> FALSE, w |-> w]

allocate(w, r, pid, instances) ==
    IF w.available[r] >= instances
    THEN [ok |-> TRUE,
          w  |-> [w EXCEPT !.allocated[r] = DictSet(@, pid, DictGet(@, pid) + instances),
                           !.available[r] = @ - instances]]
    ELSE [ok |-> FALSE, w |-> w]

\* Resource.release without the test "instances <= self.allocated_to[process.pid]"
release_unchecked(w, r, pid, isNone, instances) ==
    IF pid \in DOMAIN w.allocated[r]
    THEN LET n == IF isNone THEN w.allocated[r][pid] ELSE instances
             c == w.allocated[r][pid] - n
         IN  [ok |-> TRUE,
              w  |-> [w EXCEPT !.allocated[r] = IF c = 0 THEN DictDel(@, pid)
                                                ELSE DictSet(@, pid, c),
                               !.available[r] = @ + n]]
    ELSE [ok |-> FALSE, w |-> w]

\* release that forgets "self.available_instances += instances"
release_keeps_available(w, r, pid, isNone, instances) ==
    IF pid \in DOMAIN w.allocated[r]
    THEN LET n == IF isNone THEN w.allocated[r][pid] ELSE instances
             c == w.allocated[r][pid] - n
         IN  IF n <= w.allocated[r][pid]
             THEN [ok |-> TRUE,
                   w  |-> [w EXCEPT !.allocated[r] = IF c = 0 THEN DictDel(@, pid)
                                                     ELSE DictSet(@, pid, c)]]
             ELSE [ok |-> FALSE, w |-> w]
    ELSE [ok |-> FALSE, w |-> w]

\* release that leaves an entry of count zero in allocated_to instead of deleting it
release_keeps_zero_entry(w, r, pid, isNone, instances) ==
    IF pid \in DOMAIN w.allocated[r]
    THEN LET n == IF isNone THEN w.allocated[r][pid] ELSE instances
             c == w.allocated[r][pid] - n
         IN  IF n <= w.allocated[r][pid]
             THEN [ok |-> TRUE,
                   w  |-> [w EXCEPT !.allocated[r] = DictSet(@, pid, c),
                                    !.available[r] = @ + n]]
             ELSE [ok |-> FALSE, w |-> w]
    ELSE [ok |-> FALSE, w |-> w]

\* isNone: the instances argument is None
release(w, r, pid, isNone, instances) ==
    IF pid \in DOMAIN w.allocated[r]
    THEN LET n == IF isNone THEN w.allocated[r][pid] ELSE instances
             c == w.allocated[r][pid] - n
         IN  IF n <= w.allocated[r][pid]
             THEN [ok |-> TRUE,
                   w  |-> [w EXCEPT !.allocated[r] = IF c = 0 THEN DictDel(@, pid)
                                                     ELSE DictSet(@, pid, c),
                                    !.available[r] = @ + n]]
             ELSE [ok |-> FALSE, w |-> w]
    ELSE [ok |-> FALSE, w |-> w]

\* request_resource that appends to resources_requested without the
\* "if resource not in self.resources_requested" test
request_resource_always_appends(w, pid, r, instances) ==
    LET a == allocate(w, r, pid, instances)
    IN  IF is_available(w, r) /\ a.ok
        THEN [ret |-> TRUE,
              w   |-> [a.w EXCEPT !.held[pid] = Append(@, r)]]
        ELSE [ret |-> FALSE,
              w   |-> [w EXCEPT !.requested[pid] = Append(@, r),
                                !.status[pid] = "WAITING"]]

\* ---------------------------------------------------------------- Process
request_resource(w, pid, r, instances) ==
    LET a == allocate(w, r, pid, instances)
    IN  IF is_available(w, r) /\ a.ok
        THEN [ret |-> TRUE,
              w   |-> [a.w EXCEPT !.held[pid] = Append(@, r)]]
        ELSE [ret |-> FALSE,
              w   |-> [w EXCEPT !.requested[pid] = IF r \in Range(@) THEN @ ELSE Append(@, r),
                                !.status[pid] = "WAITING"]]

\* release_resource that sets the processes waiting for the released resource
\* RUNNING again
release_resource_wakes_waiters(w, pid, r, isNone, instances) ==
    IF r \in Range(w.held[pid])
    THEN LET rel == release(w, r, pid, isNone, instances)
             woken == [q \in DOMAIN w.status |->
                          IF q # pid /\ w.status[q] = "WAITING" /\ r \in Range(w.requested[q])
                          THEN "RUNNING" ELSE w.status[q]]
         IN  IF rel.ok
             THEN [ret |-> TRUE,
                   w   |-> IF isNone \/ instances = DictGet(rel.w.allocated[r], pid)
                           THEN [rel.w EXCEPT !.held[pid] = ListRemove(@, r), !.status = woken]
                           ELSE [rel.w EXCEPT !.status = woken]]
             ELSE [ret |-> FALSE, w |-> w]
    ELSE [ret |-> FALSE, w |-> w]

release_resource(w, pid, r, isNone, instances) ==
    IF r \in Range(w.held[pid])
    THEN LET rel == release(w, r, pid, isNone, instances)
         IN  IF rel.ok
             THEN [ret |-> TRUE,
                   w   |-> IF isNone \/ instances = DictGet(rel.w.allocated[r], pid)
                           THEN [rel.w EXCEPT !.held[pid] = ListRemove(@, r)]
                           ELSE rel.w]
             ELSE [ret |-> FALSE, w |-> w]
    ELSE [ret |-> FALSE, w |-> w]

\* the loop of terminate over list(self.resources_held), a copy taken before the loop
RECURSIVE ReleaseEach(_, _, _)
ReleaseEach(w, pid, rs) ==
    IF rs = <<>> THEN w
    ELSE ReleaseEach(release_resource(w, pid, Head(rs), TRUE, 0).w, pid, Tail(rs))

\* terminate whose loop stops after the first held resource
terminate_first_only(w, pid) ==
    [(IF w.held[pid] = <<>> THEN w
      ELSE release_resource(w, pid, Head(w.held[pid]), TRUE, 0).w)
        EXCEPT !.status[pid] = "TERMINATED"]

terminate(w, pid) ==
    [ReleaseEach(w, pid, w.held[pid]) EXCEPT !.status[pid] = "TERMINATED"]

\* --------------------------------------------------------------- detector
\* _create_resource_allocation_graph: an allocation edge R -> P for every pid in
\* R.allocated_to, a request edge P -> R for every R in P.resources_requested
AllocationEdge(w, r, pid) == pid \in DOMAIN w.allocated[r]

\* request edges built from resources_held instead of resources_requested
RequestEdge_from_held(w, pid, r) == r \in Range(w.held[pid])

RequestEdge(w, pid, r) == r \in Range(w.requested[pid])

Min(a, b) == IF a <= b THEN a ELSE b

Injective(f) == \A i, j \in DOMAIN f : f[i] = f[j] => i = j

\* ps[1] -> rs[1] -> ps[2] -> ... -> rs[k] -> ps[1] is a simple cycle of the graph
IsCycle(w, ps, rs) ==
    /\ Injective(ps) /\ Injective(rs)
    /\ \A i \in DOMAIN ps :
          /\ RequestEdge(w, ps[i], rs[i])
          /\ AllocationEdge(w, rs[i], ps[IF i = Len(ps) THEN 1 ELSE i + 1])

\* the sets of process ids met along the simple cycles of the graph; a node on
\* a cycle has an edge in and an edge out, so only such nodes are tried
CyclePidSets(w) ==
    LET P == {p \in DOMAIN w.status :
                w.requested[p] # <<>> /\ \E r \in DOMAIN w.total : AllocationEdge(w, r, p)}
        R == {r \in DOMAIN w.total :
                DOMAIN w.allocated[r] # {} /\ \E p \in P : RequestEdge(w, p, r)}
    IN  IF P = {} \/ R = {} THEN {}
        ELSE {Range(ps) : ps \in
                {c \in UNION {[1..k -> P] : k \in 1..Min(Cardinality(P), Cardinality(R))} :
                    \E rs \in [1..Len(c) -> R] : IsCycle(w, c, rs)}}

\* list(set_of_small_ints): CPython lists them in increasing order
RECURSIVE ListOfSet(_)
ListOfSet(S) ==
    IF S = {} THEN <<>>
    ELSE LET m == CHOOSE x \in S : \A y \in S : x <= y
         IN  <<m>> \o ListOfSet(S \ {m})

\* detection that leaves its loop over the cycle's edges after the first
\* process node: one pid of the cycle is returned
detect_first_process_only(w) ==
    IF CyclePidSets(w) = {}
    THEN {[is_deadlocked |-> FALSE, deadlocked_processes |-> <<>>]}
    ELSE {[is_deadlocked |-> TRUE, deadlocked_processes |-> <<p>>] :
            p \in UNION CyclePidSets(w)}

\* detection on a graph that has a request edge P -> R for the resources a
\* process holds as well as for those it requests
detect_held_as_requested(w) ==
    LET g == [w EXCEPT !.requested = [p \in DOMAIN w.status |-> w.requested[p] \o w.held[p]]]
    IN  IF CyclePidSets(g) = {}
        THEN {[is_deadlocked |-> FALSE, deadlocked_processes |-> <<>>]}
        ELSE {[is_deadlocked |-> TRUE, deadlocked_processes |-> ListOfSet(S)] : S \in CyclePidSets(g)}

\* detection that reports the waiting processes whenever some process waits,
\* without looking for a cycle
detect_reports_waiting(w) ==
    LET W == {p \in DOMAIN w.status : w.status[p] = "WAITING"}
    IN  IF W = {}
        THEN {[is_deadlocked |-> FALSE, deadlocked_processes |-> <<>>]}
        ELSE {[is_deadlocked |-> TRUE, deadlocked_processes |-> ListOfSet(W)]}

\* detect_using_resource_allocation_graph: the results it can return.  nx.find_cycle
\* returns one cycle of the graph; which one depends on the insertion order of
\* the nodes and edges, which this model does not keep, so every simple cycle
\* is a possible answer.
detect_using_resource_allocation_graph(w) ==
    IF CyclePidSets(w) = {}
    THEN {[is_deadlocked |-> FALSE, deadlocked_processes |-> <<>>]}
    ELSE {[is_deadlocked |-> TRUE, deadlocked_processes |-> ListOfSet(S)] : S \in CyclePidSets(w)}

\* detect_using_resource_allocation_graph()[0]
rag_deadlocked(w) == CyclePidSets(w) # {}

\* ------------------------------------------------------------------ System
\* System.request_resource(pid, rid, instances): the instances argument is not
\* passed on, the process is called with its default of 1
System_request_resource(w, pid, rid, instances) ==
    IF pid \in DOMAIN w.status /\ rid \in DOMAIN w.total
    THEN request_resource(w, pid, rid, 1)
    ELSE [ret |-> FALSE, w |-> w]

\* System.release_resource(pid, rid, instances): the process is called with
\* its default of None, whatever instances is
System_release_resource(w, pid, rid, isNone, instances) ==
    IF pid \in DOMAIN w.status /\ rid \in DOMAIN w.total
    THEN release_resource(w, pid, rid, TRUE, 0)
    ELSE [ret |-> FALSE, w |-> w]

\* ------------------------------------------------------ banker's algorithm
\* list(self.system.processes): the pids in insertion order, which is
\* increasing order in every system built here
ProcessList(w) == ListOfSet(DOMAIN w.status)

\* allocation[P][j]: resource.allocated_to.get(pid, 0)
Allocation(w, pid, r) == DictGet(w.allocated[r], pid)

\* max_demand[P][j]: max(allocated + (1 if the resource is requested else 0), 1)
MaxDemand(w, pid, r) ==
    LET max_need == Allocation(w, pid, r) + (IF r \in Range(w.requested[pid]) THEN 1 ELSE 0)
    IN  IF max_need >= 1 THEN max_need ELSE 1

\* need taken to be the max demand itself, the allocation not subtracted
Need_is_max_demand(w, pid, r) == MaxDemand(w, pid, r)

\* need[i][j] = max_demand[i][j] - allocation[i][j]
Need(w, pid, r) == MaxDemand(w, pid, r) - Allocation(w, pid, r)

\* one pass that finishes a process without returning its allocation to work
RECURSIVE ScanPass_keeps_work(_, _, _)
ScanPass_keeps_work(w, ps, st) ==
    IF ps = <<>> THEN st
    ELSE LET p == Head(ps)
         IN  IF p \notin st.finish /\ \A r \in DOMAIN w.total : Need(w, p, r) <= st.work[r]
             THEN ScanPass_keeps_work(w, Tail(ps),
                         [work |-> st.work, finish |-> st.finish \cup {p}, allocated |-> TRUE])
             ELSE ScanPass_keeps_work(w, Tail(ps), st)

\* one pass of the for loop of _is_safe_state over the processes ps, in order,
\* work and finish being updated as the pass goes
RECURSIVE ScanPass(_, _, _)
ScanPass(w, ps, st) ==
    IF ps = <<>> THEN st
    ELSE LET p == Head(ps)
         IN  IF p \notin st.finish /\ \A r \in DOMAIN w.total : Need(w, p, r) <= st.work[r]
             THEN ScanPass(w, Tail(ps),
                         [work |-> [r \in DOMAIN w.total |-> st.work[r] + Allocation(w, p, r)],
                          finish |-> st.finish \cup {p},
                          allocated |-> TRUE])
             ELSE ScanPass(w, Tail(ps), st)

\* the "while True" loop: passes are made until one finishes nobody
RECURSIVE SafeLoop(_, _, _)
SafeLoop(w, work, finish) ==
    LET st == ScanPass(w, ProcessList(w), [work |-> work, finish |-> finish, allocated |-> FALSE])
    IN  IF ~st.allocated THEN st.finish ELSE SafeLoop(w, st.work, st.finish)

\* _is_safe_state: all(finish)
_is_safe_state(w) == SafeLoop(w, w.available, {}) = DOMAIN w.status

\* the list of the pids in ps whose status is WAITING, in the order of ps
RECURSIVE WaitingIn(_, _)
WaitingIn(w, ps) ==
    IF ps = <<>> THEN <<>>
    ELSE (IF w.status[Head(ps)] = "WAITING" THEN <<Head(ps)>> ELSE <<>>) \o WaitingIn(w, Tail(ps))

detect_using_bankers_algorithm(w) ==
    IF _is_safe_state(w)
    THEN [is_deadlocked |-> FALSE, deadlocked_processes |-> <<>>]
    ELSE [is_deadlocked |-> TRUE, deadlocked_processes |-> WaitingIn(w, ProcessList(w))]

\* --------------------------------------------------------------- resolver
None == -1   \* Python's None where a pid is expected; pids are >= 0

\* the loop of _select_process that on a tie keeps the last pid (>= for >)
RECURSIVE SelectLoop_last_on_ties(_, _, _, _)
SelectLoop_last_on_ties(w, ps, max_resources, selected_pid) ==
    IF ps = <<>> THEN selected_pid
    ELSE LET pid == Head(ps)
         IN  IF pid \in DOMAIN w.status /\ Len(w.held[pid]) >= max_resources
             THEN SelectLoop_last_on_ties(w, Tail(ps), Len(w.held[pid]), pid)
             ELSE SelectLoop_last_on_ties(w, Tail(ps), max_resources, selected_pid)

\* the priority loop of _select_process over the pids ps, max_resources and
\* selected_pid being its two local variables
RECURSIVE SelectLoop(_, _, _, _)
SelectLoop(w, ps, max_resources, selected_pid) ==
    IF ps = <<>> THEN selected_pid
    ELSE LET pid == Head(ps)
         IN  IF pid \in DOMAIN w.status /\ Len(w.held[pid]) > max_resources
             THEN SelectLoop(w, Tail(ps), Len(w.held[pid]), pid)
             ELSE SelectLoop(w, Tail(ps), max_resources, selected_pid)

\* _select_process: the values it can return (random.choice is any element)
_select_process(w, deadlocked_processes, priority_based) ==
    IF deadlocked_processes = <<>> THEN {None}
    ELSE IF priority_based THEN {SelectLoop(w, deadlocked_processes, -1, None)}
    ELSE Range(deadlocked_processes)

\* "if not process_id": true of None and of the pid 0
Falsy(process_id) == process_id = None \/ process_id = 0

\* termination that marks the victim TERMINATED without releasing its resources
\* or clearing its requests
_resolve_by_termination_status_only(w, process_id) ==
    IF Falsy(process_id) THEN {[ret |-> TRUE, w |-> w]}
    ELSE LET t == [w EXCEPT !.status[process_id] = "TERMINATED"]
         IN  {[ret |-> ~rag_deadlocked(t), w |-> t]}

\* the outcomes of _resolve_by_termination once the victim is selected
_resolve_by_termination(w, process_id) ==
    IF Falsy(process_id) THEN {[ret |-> TRUE, w |-> w]}
    ELSE LET t == [terminate(w, process_id) EXCEPT !.requested[process_id] = <<>>]
         IN  {[ret |-> ~rag_deadlocked(t), w |-> t]}

\* preemption that clears the victim's requests as the other two strategies do
_resolve_by_preemption_clears_requests(w, process_id) ==
    IF Falsy(process_id) THEN {[ret |-> TRUE, w |-> w]}
    ELSE IF w.held[process_id] = <<>> THEN {[ret |-> FALSE, w |-> w]}
    ELSE {LET rel == release(w, r, process_id, TRUE, 0)
              t == IF rel.ok THEN [rel.w EXCEPT !.held[process_id] = ListRemove(@, r),
                                                !.requested[process_id] = <<>>]
                   ELSE w
          IN  [ret |-> ~rag_deadlocked(t), w |-> t] : r \in Range(w.held[process_id])}

\* the outcomes of _resolve_by_preemption: one for each resource random.choice can pick
_resolve_by_preemption(w, process_id) ==
    IF Falsy(process_id) THEN {[ret |-> TRUE, w |-> w]}
    ELSE IF w.held[process_id] = <<>> THEN {[ret |-> FALSE, w |-> w]}
    ELSE {LET rel == release(w, r, process_id, TRUE, 0)
              t == IF rel.ok THEN [rel.w EXCEPT !.held[process_id] = ListRemove(@, r)]
                   ELSE w
          IN  [ret |-> ~rag_deadlocked(t), w |-> t] : r \in Range(w.held[process_id])}

\* the loop of _resolve_by_rollback over list(process.resources_held)
RECURSIVE RollbackEach(_, _, _)
RollbackEach(w, pid, rs) ==
    IF rs = <<>> THEN w
    ELSE RollbackEach([release(w, Head(rs), pid, TRUE, 0).w EXCEPT !.held[pid] = ListRemove(@, Head(rs))],
                      pid, Tail(rs))

\* rollback that forgets "process.status = 'RUNNING'"
_resolve_by_rollback_keeps_status(w, process_id) ==
    IF Falsy(process_id) THEN {[ret |-> TRUE, w |-> w]}
    ELSE LET t == [RollbackEach(w, process_id, w.held[process_id])
                     EXCEPT !.requested[process_id] = <<>>]
         IN  {[ret |-> ~rag_deadlocked(t), w |-> t]}

_resolve_by_rollback(w, process_id) ==
    IF Falsy(process_id) THEN {[ret |-> TRUE, w |-> w]}
    ELSE LET t == [RollbackEach(w, process_id, w.held[process_id])
                     EXCEPT !.requested[process_id] = <<>>,
                            !.status[process_id] = "RUNNING"]
         IN  {[ret |-> ~rag_deadlocked(t), w |-> t]}

Strategies == {"termination", "preemption", "rollback"}

\* the dispatch of resolve_deadlock on the strategy name, the victim being process_id
Dispatch(w, strategy, process_id) ==
    IF strategy = "termination" THEN _resolve_by_termination(w, process_id)
    ELSE IF strategy = "preemption" THEN _resolve_by_preemption(w, process_id)
    ELSE _resolve_by_rollback(w, process_id)

\* resolve_deadlock, a cycle having been detected with the pids deadlocked_processes
ResolveDetected(w, strategy, deadlocked_processes, priority_based) ==
    IF strategy \notin Strategies THEN {[ret |-> "ValueError", w |-> w]}
    ELSE UNION {{[ret |-> Bool(o.ret), w |-> o.w] : o \in Dispatch(w, strategy, v)} :
                  v \in _select_process(w, deadlocked_processes, priority_based)}

\* resolve_deadlock: the outcomes (returned value or exception, and the state left)
resolve_deadlock(w, strategy, priority_based) ==
    UNION {IF ~d.is_deadlocked THEN {[ret |-> "True", w |-> w]}
           ELSE ResolveDetected(w, strategy, d.deadlocked_processes, priority_based) :
             d \in detect_using_resource_allocation_graph(w)}

\* ------------------------------------------------------ resolution history
\* resolver.resolution_history is a list of {strategy, deadlocked_processes}
\* records.  It is passed to and returned by the operator below, the lists a
\* call can start from being those of at most MaxHistory earlier records.
MaxHistory == 1

HistoryRecord(strategy, deadlocked_processes) ==
    [strategy |-> strategy, deadlocked_processes |-> deadlocked_processes]

Histories ==
    LET earlier == {HistoryRecord("termination", ListOfSet(Pids))}
    IN  UNION {[1..n -> earlier] : n \in 0..MaxHistory}

\* resolve_deadlock that logs the call before it looks at the detection result
resolve_deadlock_logs_every_call(w, resolution_history, strategy, priority_based) ==
    UNION {LET logged == Append(resolution_history,
                                HistoryRecord(strategy, d.deadlocked_processes))
           IN  IF ~d.is_deadlocked
               THEN {[ret |-> "True", w |-> w, resolution_history |-> logged]}
               ELSE {[ret |-> o.ret, w |-> o.w, resolution_history |-> logged] :
                       o \in ResolveDetected(w, strategy, d.deadlocked_processes, priority_based)} :
             d \in detect_using_resource_allocation_graph(w)}

\* resolve_deadlock with the history: the outcomes (returned value or
\* exception, the state left and the history left).  The record is appended
\* after the early return and before the dispatch on the strategy name.
resolve_deadlock_with_history(w, resolution_history, strategy, priority_based) ==
    UNION {IF ~d.is_deadlocked
           THEN {[ret |-> "True", w |-> w, resolution_history |-> resolution_history]}
           ELSE {[ret |-> o.ret, w |-> o.w,
                  resolution_history |->
                      Append(resolution_history,
                             HistoryRecord(strategy, d.deadlocked_processes))] :
                   o \in ResolveDetected(w, strategy, d.deadlocked_processes, priority_based)} :
             d \in detect_using_resource_allocation_graph(w)}

\* verify_resolution without the loop over the process statuses
verify_resolution_no_status_check(w) ==
    IF rag_deadlocked(w) THEN FALSE
    ELSE IF detect_using_bankers_algorithm(w).is_deadlocked THEN FALSE
    ELSE IF \E r \in DOMAIN w.total :
               DictSum(w.allocated[r]) + w.available[r] # w.total[r] THEN FALSE
    ELSE TRUE

\* verify_resolution: four tests in turn, the first that fails returns False
verify_resolution(w) ==
    IF rag_deadlocked(w) THEN FALSE
    ELSE IF detect_using_bankers_algorithm(w).is_deadlocked THEN FALSE
    ELSE IF \E p \in DOMAIN w.status : w.status[p] \notin {"RUNNING", "TERMINATED"} THEN FALSE
    ELSE IF \E r \in DOMAIN w.total :
               DictSum(w.allocated[r]) + w.available[r] # w.total[r] THEN FALSE
    ELSE TRUE

\* _take_snapshot: plain data, the resources named by their rid
_take_snapshot(w) ==
    [taken |-> TRUE,
     processes |-> [p \in DOMAIN w.status |-> [status |-> w.status[p],
                                    resources_held |-> w.held[p],
                                    resources_requested |-> w.requested[p]]],
     resources |-> [r \in DOMAIN w.total |-> [total_instances |-> w.total[r],
                                    available_instances |-> w.available[r],
                                    allocated_to |-> w.allocated[r]]]]

\* _restore_snapshot that builds Resource(rid, total_instances) and forgets to
\* set available_instances from the snapshot: every instance is available again
_restore_snapshot_all_available(snap) ==
    [status |-> [p \in DOMAIN snap.processes |-> snap.processes[p].status],
     held |-> [p \in DOMAIN snap.processes |-> snap.processes[p].resources_held],
     requested |-> [p \in DOMAIN snap.processes |-> snap.processes[p].resources_requested],
     total |-> [r \in DOMAIN snap.resources |-> snap.resources[r].total_instances],
     available |-> [r \in DOMAIN snap.resources |-> snap.resources[r].total_instances],
     allocated |-> [r \in DOMAIN snap.resources |-> snap.resources[r].allocated_to]]

\* _restore_snapshot: processes and resources are rebuilt from the snapshot
_restore_snapshot(snap) ==
    [status |-> [p \in DOMAIN snap.processes |-> snap.processes[p].status],
     held |-> [p \in DOMAIN snap.processes |-> snap.processes[p].resources_held],
     requested |-> [p \in DOMAIN snap.processes |-> snap.processes[p].resources_requested],
     total |-> [r \in DOMAIN snap.resources |-> snap.resources[r].total_instances],
     available |-> [r \in DOMAIN snap.resources |-> snap.resources[r].available_instances],
     allocated |-> [r \in DOMAIN snap.resources |-> snap.resources[r].allocated_to]]

\* ----------------------------------------------------------------- actions
NoSnapshot == [taken |-> FALSE]

\* the processes and resources of the system become those of w; no method of
\* Process, Resource, the detector or the resolver assigns System.time
SetWorld(w) ==
    /\ status' = w.status
    /\ resources_held' = w.held
    /\ resources_requested' = w.requested
    /\ total_instances' = w.total
    /\ available_instances' = w.available
    /\ allocated_to' = w.allocated
    /\ time' = time

Init ==
    /\ status = [p \in 0..MaxPid |-> "RUNNING"]
    /\ resources_held = [p \in 0..MaxPid |-> <<>>]
    /\ resources_requested = [p \in 0..MaxPid |-> <<>>]
    /\ total_instances = [r \in 1..NumResources |-> IF r = 1 THEN MaxTotal ELSE 1]
    /\ available_instances = total_instances
    /\ allocated_to = [r \in 1..NumResources |-> EmptyDict]
    /\ snapshot = NoSnapshot
    /\ time = 0

\* Process.request_resource(resource, instances)
Request(pid, r, n) ==
    /\ Len(resources_held[pid]) < MaxHeld
    /\ SetWorld(request_resource(World, pid, r, n).w)
    /\ UNCHANGED snapshot

\* Process.release_resource(resource, instances) with an instance count
Release(pid, r, n) ==
    /\ SetWorld(release_resource(World, pid, r, FALSE, n).w)
    /\ UNCHANGED snapshot

\* Process.release_resource(resource): instances is None
ReleaseAll(pid, r) ==
    /\ SetWorld(release_resource(World, pid, r, TRUE, 0).w)
    /\ UNCHANGED snapshot

\* Process.terminate()
Terminate(pid) ==
    /\ SetWorld(terminate(World, pid))
    /\ UNCHANGED snapshot

\* DeadlockResolver.resolve_deadlock(strategy, priority_based)
ResolveDeadlock(strategy, priority_based) ==
    /\ \E o \in resolve_deadlock(World, strategy, priority_based) : SetWorld(o.w)
    /\ UNCHANGED snapshot

\* test_resolution_strategies, its first step: original_snapshot = self._take_snapshot()
TakeSnapshot ==
    /\ snapshot = NoSnapshot
    /\ snapshot' = _take_snapshot(World)
    /\ UNCHANGED <<status, resources_held, resources_requested, total_instances,
                   available_instances, allocated_to, time>>

\* test_resolution_strategies, an attempt: self._restore_snapshot(original_snapshot)
RestoreSnapshot ==
    /\ snapshot # NoSnapshot
    /\ SetWorld(_restore_snapshot(snapshot))
    /\ UNCHANGED snapshot

\* test_resolution_strategies returns: original_snapshot goes out of scope
DropSnapshot ==
    /\ snapshot # NoSnapshot
    /\ snapshot' = NoSnapshot
    /\ UNCHANGED <<status, resources_held, resources_requested, total_instances,
                   available_instances, allocated_to, time>>

Next ==
    \/ \E pid \in Pids, r \in Rids, n \in Instances : Request(pid, r, n)
    \/ \E pid \in Pids, r \in Rids, n \in Instances : Release(pid, r, n)
    \/ \E pid \in Pids, r \in Rids : ReleaseAll(pid, r)
    \/ \E pid \in Pids : Terminate(pid)

Spec == Init /\ [][Next]_vars

\* The allocation model together with the resolution engine.  Between the
\* snapshot and the return of test_resolution_strategies only its own calls
\* run: restore, resolve_deadlock.
NextResolve ==
    \/ snapshot = NoSnapshot /\ Next
    \/ /\ rag_deadlocked(World)    \* without a cycle resolve_deadlock returns at once
       /\ \E strategy \in Strategies \cup {"other"}, priority_based \in BOOLEAN :
             ResolveDeadlock(strategy, priority_based)
    \/ TakeSnapshot
    \/ RestoreSnapshot
    \/ DropSnapshot

SpecResolve == Init /\ [][NextResolve]_vars

\* ------------------------------------------------------ scenario systems
\* The systems the scenario builders of tests/test_scenarios.py set up: process
\* ids 1..n, resource ids 1..n, every resource with the same number of
\* instances (1 in the deadlock scenarios, 2 in create_no_deadlock_scenario).
MaxPhilosophers == 4   \* the scenario systems have 2..MaxPhilosophers processes
MaxRequests == 2       \* a builder makes two request_resource calls for each process

InitScenario ==
    \E n \in 2..MaxPhilosophers, t \in 1..MaxTotal :
        /\ status = [p \in 1..n |-> "RUNNING"]
        /\ resources_held = [p \in 1..n |-> <<>>]
        /\ resources_requested = [p \in 1..n |-> <<>>]
        /\ total_instances = [r \in 1..n |-> t]
        /\ available_instances = total_instances
        /\ allocated_to = [r \in 1..n |-> EmptyDict]
        /\ snapshot = NoSnapshot
        /\ time = 0

\* the resources a builder makes process pid request: first its own (the
\* philosopher's left fork), then the next one round the table (the right fork,
\* forks[(i + 1) % n]) or, in create_chain_deadlock, the previous one
ScenarioResources(pid) ==
    LET n == Cardinality(Rids)
    IN  IF resources_held[pid] = <<>> /\ resources_requested[pid] = <<>>
        THEN {pid}
        ELSE {(pid % n) + 1, ((pid + n - 2) % n) + 1}

\* a builder's call process.request_resource(resource), instances defaulting to 1
ScenarioRequest(pid, r) ==
    /\ Len(resources_held[pid]) + Len(resources_requested[pid]) < MaxRequests
    /\ r \in ScenarioResources(pid)
    /\ SetWorld(request_resource(World, pid, r, 1).w)
    /\ UNCHANGED snapshot

\* run_test_scenario: the builder's requests, then the resolution strategies
\* applied to the deadlock that was detected
NextScenario ==
    \/ \E pid \in Pids, r \in Rids : ScenarioRequest(pid, r)
    \/ /\ rag_deadlocked(World)
       /\ \E strategy \in Strategies, priority_based \in BOOLEAN :
             ResolveDeadlock(strategy, priority_based)

SpecScenario == InitScenario /\ [][NextScenario]_vars

\* ------------------------------------------------- snapshot under operations
\* A snapshot kept while the system goes on being used.  _take_snapshot stores
\* rids, fresh lists and allocated_to.copy(), and _restore_snapshot copies
\* again, so the snapshot shares no object with the system.

\* an aliased snapshot: allocated_to stored without .copy(), so the snapshot's
\* entry is the resource's own dict and follows it
SnapshotAfter_aliased(snap, w) ==
    IF snap.taken
    THEN [snap EXCEPT !.resources =
            [r \in DOMAIN snap.resources |->
                [snap.resources[r] EXCEPT !.allocated_to = w.allocated[r]]]]
    ELSE snap

\* the snapshot held by the caller once an operation has left the system in w
SnapshotAfter(snap, w) == snap

\* an operation on the system, leaving it in w
SnapApply(w) ==
    /\ SetWorld(w)
    /\ snapshot' = SnapshotAfter(snapshot, w)

\* the two-process system of create_simple_deadlock
InitSnapshot ==
    /\ InitScenario
    /\ DOMAIN status = {1, 2}
    /\ \A r \in DOMAIN total_instances : total_instances[r] = 1

SnapRequest(pid, r) ==
    /\ Len(resources_held[pid]) + Len(resources_requested[pid]) < MaxRequests
    /\ r \in ScenarioResources(pid)
    /\ SnapApply(request_resource(World, pid, r, 1).w)

SnapRelease(pid, r) == SnapApply(release_resource(World, pid, r, TRUE, 0).w)

SnapTerminate(pid) == SnapApply(terminate(World, pid))

SnapResolve(strategy, priority_based) ==
    /\ rag_deadlocked(World)
    /\ \E o \in resolve_deadlock(World, strategy, priority_based) : SnapApply(o.w)

NextSnapshot ==
    \/ \E pid \in Pids, r \in Rids : SnapRequest(pid, r)
    \/ \E pid \in Pids, r \in Rids : SnapRelease(pid, r)
    \/ \E pid \in Pids : SnapTerminate(pid)
    \/ \E strategy \in Strategies, priority_based \in BOOLEAN : SnapResolve(strategy, priority_based)
    \/ TakeSnapshot
    \/ RestoreSnapshot
    \/ DropSnapshot

SpecSnapshot == InitSnapshot /\ [][NextSnapshot]_vars

\* ------------------------------------------------------ read-only analysis
\* The calls that only inspect the system, interleaved with the operations that
\* change it and with System.step().
MaxTime == 1   \* System.step() is called while time < MaxTime

\* System.step(): self.time += 1
Step ==
    /\ time < MaxTime
    /\ time' = time + 1
    /\ UNCHANGED <<status, resources_held, resources_requested, total_instances,
                   available_instances, allocated_to, snapshot>>

\* an analysis that marks the waiting processes BLOCKED (the status the
\* comment of Process.__init__ lists beside WAITING)
SystemAfterAnalysis_marks_blocked(w) ==
    [w EXCEPT !.status = [p \in DOMAIN w.status |->
                            IF w.status[p] = "WAITING" THEN "BLOCKED" ELSE w.status[p]]]

\* the system once a detection, verify_resolution or _take_snapshot has
\* returned: these methods read processes and resources and assign none of
\* their attributes
SystemAfterAnalysis(w) == w

\* detector.detect_using_resource_allocation_graph()
DetectRag ==
    /\ detect_using_resource_allocation_graph(World) # {}
    /\ SetWorld(SystemAfterAnalysis(World))
    /\ UNCHANGED snapshot

\* detector.detect_using_bankers_algorithm()
DetectBankers ==
    /\ detect_using_bankers_algorithm(World).is_deadlocked \in BOOLEAN
    /\ SetWorld(SystemAfterAnalysis(World))
    /\ UNCHANGED snapshot

\* resolver.verify_resolution()
VerifyResolution ==
    /\ verify_resolution(World) \in BOOLEAN
    /\ SetWorld(SystemAfterAnalysis(World))
    /\ UNCHANGED snapshot

\* resolver._take_snapshot(), the result kept in the variable snapshot
TakeSnapshotOnly ==
    /\ snapshot = NoSnapshot
    /\ snapshot' = _take_snapshot(World)
    /\ SetWorld(SystemAfterAnalysis(World))

NextAnalysis ==
    \/ snapshot = NoSnapshot /\ Next
    \/ snapshot = NoSnapshot /\ Step
    \/ DetectRag
    \/ DetectBankers
    \/ VerifyResolution
    \/ TakeSnapshotOnly
    \/ DropSnapshot

SpecAnalysis == Init /\ [][NextAnalysis]_vars

\* ------------------------------------------------------ main.py scenarios
\* main.create_dining_philosophers, its loop from philosopher pid on, w being
\* the system so far: the philosopher requests its left fork (the fork of its
\* own number) and then its right fork (the next one round the table)
RECURSIVE main_create_dining_philosophers(_, _)
main_create_dining_philosophers(w, pid) ==
    LET num_philosophers == Cardinality(DOMAIN w.status)
        left_fork == pid
        right_fork == (pid % num_philosophers) + 1
        left == request_resource(w, pid, left_fork, 1).w
        right == request_resource(left, pid, right_fork, 1).w
    IN  IF pid > num_philosophers THEN w
        ELSE main_create_dining_philosophers(right, pid + 1)

\* the system before the loop: every process RUNNING with empty lists, every
\* fork with its single instance available
NewSystem ==
    [status    |-> [p \in Pids |-> "RUNNING"],
     held      |-> [p \in Pids |-> <<>>],
     requested |-> [p \in Pids |-> <<>>],
     total     |-> total_instances,
     available |-> total_instances,
     allocated |-> [r \in Rids |-> EmptyDict]]

\* ================================================================== claims

\* C1: for every resource, available_instances plus the sum of the
\* allocated_to values equals total_instances, in every state reached by
\* requests, releases, terminate, the three strategies and snapshot restores.
C1_Conservation ==
    \A r \in Rids :
        available_instances[r] + DictSum(allocated_to[r]) = total_instances[r]

\* a strategy has changed the state since the snapshot, a process is terminated
\* and instances are still allocated
C1_Witness ==
    /\ snapshot # NoSnapshot
    /\ World # _restore_snapshot(snapshot)
    /\ \E p \in Pids : status[p] = "TERMINATED"
    /\ \E r \in Rids : DOMAIN allocated_to[r] # {} /\ available_instances[r] < total_instances[r]

\* C2: r is in p.resources_held if and only if r.allocated_to has an entry
\* for p.pid with a positive count.
C2_HeldIffAllocated ==
    \A p \in Pids, r \in Rids :
        r \in Range(resources_held[p]) <=> DictGet(allocated_to[r], p) > 0

\* C3: request_resource(resource, n), n >= 1, on a process that is not
\* terminated is granted (returns True) exactly when available_instances >= n;
\* a grant moves n instances from available_instances to allocated_to[pid],
\* a refusal (returns False) leaves the counts of the resource as they were.
C3_RequestGrant ==
    [][\A p \in Pids, r \in Rids, n \in Instances :
         (status[p] # "TERMINATED" /\ Request(p, r, n)) =>
            LET ret == request_resource(World, p, r, n).ret
            IN  /\ ret <=> available_instances[r] >= n
                /\ ret => /\ available_instances'[r] = available_instances[r] - n
                          /\ DictGet(allocated_to'[r], p) = DictGet(allocated_to[r], p) + n
                /\ ~ret => /\ available_instances' = available_instances
                           /\ allocated_to' = allocated_to]_vars

\* one process was granted every instance of resource 1 and another process,
\* refused, waits for it
C3_Witness ==
    \E p, q \in Pids :
        /\ p # q
        /\ status[p] # "TERMINATED"
        /\ DictGet(allocated_to[1], p) = total_instances[1]
        /\ available_instances[1] = 0
        /\ 1 \in Range(resources_held[p])
        /\ 1 \in Range(resources_requested[q])
        /\ status[q] = "WAITING"

\* C4: after a request_resource call that is granted, the resource is not in
\* the process's resources_requested.
C4_GrantClearsRequest ==
    [][\A p \in Pids, r \in Rids, n \in Instances :
         (Request(p, r, n) /\ request_resource(World, p, r, n).ret) =>
            r \notin Range(resources_requested'[p])]_vars

\* C5: a process that is not TERMINATED is WAITING exactly when its
\* resources_requested is non-empty and RUNNING exactly when it is empty.
C5_StatusMatchesRequests ==
    \A p \in Pids :
        status[p] # "TERMINATED" =>
            /\ status[p] = "WAITING" <=> resources_requested[p] # <<>>
            /\ status[p] = "RUNNING" <=> resources_requested[p] = <<>>

\* a process that was WAITING when the snapshot was taken has been rolled back
\* and runs, while another process is still waiting
C5_Witness ==
    /\ snapshot # NoSnapshot
    /\ \E p, q \in Pids :
          /\ snapshot.processes[p].status = "WAITING"
          /\ status[p] = "RUNNING" /\ resources_requested[p] = <<>>
          /\ status[q] = "WAITING" /\ resources_requested[q] # <<>>

\* C6: a process whose status is TERMINATED has empty resources_held and
\* empty resources_requested; stated of Process.terminate() called on a
\* process that is not yet terminated, which is how the status is reached.
C6_TerminatedHoldsNothing ==
    [][\A p \in Pids :
         (status[p] # "TERMINATED" /\ Terminate(p)) =>
            /\ resources_held'[p] = <<>>
            /\ resources_requested'[p] = <<>>]_vars

\* C7: once a process is TERMINATED, a request_resource or release_resource
\* call on it changes neither the process nor any resource.
C7_TerminatedImmutable ==
    [][\A p \in Pids, r \in Rids :
         (/\ status[p] = "TERMINATED"
          /\ \/ \E n \in Instances : Request(p, r, n) \/ Release(p, r, n)
             \/ ReleaseAll(p, r)) =>
            UNCHANGED <<status, resources_held, resources_requested,
                        available_instances, allocated_to>>]_vars

\* C8: after Process.terminate() no resource has an allocated_to entry for
\* the pid, and every instance the process held is back in available_instances.
C8_TerminateReleasesAll ==
    [][\A p \in Pids :
         Terminate(p) =>
            \A r \in Rids :
                /\ p \notin DOMAIN allocated_to'[r]
                /\ available_instances'[r] =
                      available_instances[r] + DictGet(allocated_to[r], p)]_vars

\* C9: release_resource(resource, k) by a process holding h instances,
\* 1 <= k <= h, lowers allocated_to[pid] by k and raises available_instances
\* by k; the resource leaves resources_held exactly when k = h.
C9_PartialRelease ==
    [][\A p \in Pids, r \in Rids, k \in Instances :
         (/\ r \in Range(resources_held[p])
          /\ k <= DictGet(allocated_to[r], p)
          /\ Release(p, r, k)) =>
            /\ DictGet(allocated_to'[r], p) = DictGet(allocated_to[r], p) - k
            /\ available_instances'[r] = available_instances[r] + k
            /\ r \notin Range(resources_held'[p]) <=> k = DictGet(allocated_to[r], p)]_vars

\* what the caller of release_resource gets: the returned bool; no path of the
\* method raises
ReleaseOutcome(w, pid, r, isNone, instances) ==
    Bool(release_resource(w, pid, r, isNone, instances).ret)

\* the release is of a resource the process does not hold, or of more
\* instances than it holds
InvalidRelease(pid, r, isNone, instances) ==
    \/ r \notin Range(resources_held[pid])
    \/ pid \notin DOMAIN allocated_to[r]
    \/ ~isNone /\ instances > DictGet(allocated_to[r], pid)

\* the instance counts tried: None, and 1 .. one more than any resource has
ReleaseArgs == {[none |-> TRUE, n |-> 0]} \cup {[none |-> FALSE, n |-> k] : k \in 1..(MaxTotal + 1)}

RequestOutcome(w, pid, r, instances) == Bool(request_resource(w, pid, r, instances).ret)

\* C11: request_resource with instances < 1 (zero or negative) is rejected
\* with an InvalidRequestError and leaves the process and the resource unchanged.
C11_InvalidRequestRejected ==
    \A pid \in Pids, r \in Rids, n \in {-1, 0} :
        /\ RequestOutcome(World, pid, r, n) = "InvalidRequestError"
        /\ request_resource(World, pid, r, n).w = World

\* the number of times x occurs in the list s
Count(s, x) == Cardinality({i \in 1..Len(s) : s[i] = x})

\* C12: when a request_resource call is not granted, the same call made again
\* right after it is not granted either and leaves the state as the first call
\* left it: the resource is in resources_requested exactly once, the status is
\* WAITING and the counts of the resource are those before the first call.
C12_RepeatedRequestNoOp ==
    [][\A pid \in Pids, r \in Rids, n \in Instances :
          (Request(pid, r, n) /\ ~request_resource(World, pid, r, n).ret) =>
              LET again == request_resource(World', pid, r, n)
              IN  /\ ~again.ret
                  /\ again.w = World'
                  /\ Count(resources_requested'[pid], r) = 1
                  /\ status'[pid] = "WAITING"
                  /\ available_instances' = available_instances
                  /\ allocated_to' = allocated_to]_vars

\* a request was refused (the resource has no free instance, the process waits
\* for it) and repeating it changes nothing
C12_Witness ==
    \E pid \in Pids, r \in Rids :
        /\ status[pid] = "WAITING"
        /\ Count(resources_requested[pid], r) = 1
        /\ available_instances[r] = 0
        /\ ~request_resource(World, pid, r, 1).ret
        /\ request_resource(World, pid, r, 1).w = World

\* C13: in every reachable state and for every process, calling terminate()
\* twice leaves the same process and resource state as calling it once.
C13_TerminateIdempotent ==
    \A pid \in Pids : terminate(terminate(World, pid), pid) = terminate(World, pid)

\* a process was terminated while it held two resources, something is left in
\* its resources_held for a second terminate() to try, and that call changes nothing
C13_Witness ==
    \E pid \in Pids :
        /\ status[pid] = "TERMINATED"
        /\ resources_held[pid] # <<>>
        /\ \E r \in Rids : available_instances[r] < total_instances[r]
        /\ terminate(World, pid) = World

\* the state create_simple_deadlock builds: P1 holds R1 and requests R2, P2
\* holds R2 and requests R1, both resources with a single instance
SimpleDeadlock ==
    /\ Pids = {1, 2} /\ Rids = {1, 2}
    /\ \A p \in Pids :
          /\ total_instances[p] = 1
          /\ resources_held[p] = <<p>>
          /\ DOMAIN allocated_to[p] = {p}
          /\ resources_requested[p] = <<3 - p>>

\* C14: in the two-process/two-resource circular wait
\* detect_using_resource_allocation_graph returns True and the returned
\* processes are exactly 1 and 2.
C14_SimpleDeadlockDetected ==
    SimpleDeadlock =>
        \A d \in detect_using_resource_allocation_graph(World) :
            d.is_deadlocked /\ Range(d.deadlocked_processes) = {1, 2}

\* the builder's four requests have been made: both processes wait
C14_Witness ==
    SimpleDeadlock /\ \A p \in Pids : status[p] = "WAITING"

\* the state create_dining_philosophers builds for n >= 3: every philosopher
\* holds its left fork (the fork of its own number) and requests its right
\* fork (the next one round the table), every fork with a single instance
DiningPhilosophers ==
    LET n == Cardinality(Pids)
    IN  /\ n >= 3
        /\ Pids = 1..n /\ Rids = 1..n
        /\ \A p \in Pids :
              /\ total_instances[p] = 1
              /\ resources_held[p] = <<p>>
              /\ DOMAIN allocated_to[p] = {p}
              /\ resources_requested[p] = <<(p % n) + 1>>

\* C15: for N >= 3 philosophers each holding the left fork and requesting the
\* right one, detect_using_resource_allocation_graph returns True with a list
\* that contains all N process ids.
C15_PhilosophersDetected ==
    DiningPhilosophers =>
        \A d \in detect_using_resource_allocation_graph(World) :
            d.is_deadlocked /\ Pids \subseteq Range(d.deadlocked_processes)

\* the table of MaxPhilosophers philosophers after the builder's requests
C15_Witness ==
    /\ DiningPhilosophers
    /\ Cardinality(Pids) = MaxPhilosophers
    /\ \A p \in Pids : status[p] = "WAITING"

\* the smallest table the claim speaks of, three philosophers, is reached too
C15_WitnessThree ==
    DiningPhilosophers /\ Cardinality(Pids) = 3

\* the state create_no_deadlock_scenario builds: three processes, three
\* resources with two instances each; every process was granted its own
\* resource and then the second instance of the next one
NoDeadlockScenario ==
    /\ Pids = 1..3 /\ Rids = 1..3
    /\ \A p \in Pids :
          /\ total_instances[p] = 2
          /\ available_instances[p] = 0
          /\ resources_held[p] = <<p, (p % 3) + 1>>
          /\ resources_requested[p] = <<>>
          /\ allocated_to[(p % 3) + 1] = DictSet(DictSet(EmptyDict, p, 1), (p % 3) + 1, 1)

\* C16: in the no-deadlock scenario detect_using_resource_allocation_graph
\* returns (False, []).
C16_NoDeadlockReported ==
    NoDeadlockScenario =>
        detect_using_resource_allocation_graph(World) =
            {[is_deadlocked |-> FALSE, deadlocked_processes |-> <<>>]}

\* the six requests of the builder were all granted: no process waits
C16_Witness ==
    NoDeadlockScenario /\ \A p \in Pids : status[p] = "RUNNING"

\* The graph of claim C17, read from the state: q is one round of edges away
\* from p when p -> R -> q for some resource R, that is when R is in
\* p.resources_requested and q is in R.allocated_to.
WaitsFor(p, q) ==
    \E r \in Rids : r \in Range(resources_requested[p]) /\ q \in DOMAIN allocated_to[r]

\* the processes reached from the set S along the edges, S included
RECURSIVE ReachableFrom(_)
ReachableFrom(S) ==
    LET T == S \cup {q \in Pids : \E p \in S : WaitsFor(p, q)}
    IN  IF T = S THEN S ELSE ReachableFrom(T)

\* p lies on a directed cycle: p is reached from one of its successors.  Edges
\* join a process and a resource only, so every directed cycle passes through a process.
OnCycle(p) == p \in ReachableFrom({q \in Pids : WaitsFor(p, q)})

HasCycle == \E p \in Pids : OnCycle(p)

\* C17: in every reachable state detect_using_resource_allocation_graph
\* returns True exactly when the graph with the edges R -> P for pid in
\* R.allocated_to and P -> R for R in P.resources_requested has a directed
\* cycle; the returned list is then non-empty, without duplicates and made of
\* processes that lie on a directed cycle; without a cycle the result is (False, []).
C17_DetectionAccurate ==
    \A d \in detect_using_resource_allocation_graph(World) :
        /\ d.is_deadlocked <=> HasCycle
        /\ d.is_deadlocked =>
              /\ d.deadlocked_processes # <<>>
              /\ Injective(d.deadlocked_processes)
              /\ \A p \in Range(d.deadlocked_processes) : p \in Pids /\ OnCycle(p)
        /\ ~d.is_deadlocked => d.deadlocked_processes = <<>>

\* a cycle is reported while a waiting process stands outside every cycle:
\* the returned list leaves it out
C17_Witness ==
    /\ HasCycle
    /\ \E p \in Pids : status[p] = "WAITING" /\ ~OnCycle(p)
    /\ \A d \in detect_using_resource_allocation_graph(World) :
          d.is_deadlocked /\ \E p \in Pids : p \notin Range(d.deadlocked_processes)

\* C18: from the two-process circular wait, the termination strategy applied
\* to either victim leaves a state in which the next
\* detect_using_resource_allocation_graph call returns (False, []).
C18_TerminationClearsSimpleDeadlock ==
    SimpleDeadlock =>
        \A victim \in Pids : \A o \in _resolve_by_termination(World, victim) :
            detect_using_resource_allocation_graph(o.w) =
                {[is_deadlocked |-> FALSE, deadlocked_processes |-> <<>>]}

\* the state the termination strategy leaves behind the two-process circular
\* wait: the victim is terminated and holds nothing, the other process still
\* holds its resource and waits for the one that was freed
C18_Witness ==
    /\ Pids = {1, 2}
    /\ \E victim \in Pids :
          /\ status[victim] = "TERMINATED"
          /\ resources_held[victim] = <<>> /\ resources_requested[victim] = <<>>
          /\ available_instances[victim] = 1
          /\ status[3 - victim] = "WAITING"
          /\ resources_held[3 - victim] = <<3 - victim>>
          /\ resources_requested[3 - victim] = <<victim>>
    /\ ~rag_deadlocked(World)

\* C19: on a deadlocked state, for each of the three strategies and both
\* selection modes, resolve_deadlock returns True if and only if a
\* detect_using_resource_allocation_graph call made right after it reports no
\* cycle (the 3-process chain deadlock under preemption included).
C19_ReturnMatchesDetection ==
    rag_deadlocked(World) =>
        \A strategy \in Strategies, priority_based \in BOOLEAN :
            \A o \in resolve_deadlock(World, strategy, priority_based) :
                (o.ret = "True") <=> ~rag_deadlocked(o.w)

\* the state create_chain_deadlock builds: P1, P2, P3 hold R1, R2, R3 (single
\* instances); P1 wants R3, P2 wants R1, P3 wants R2
ChainDeadlock ==
    /\ Pids = 1..3 /\ Rids = 1..3
    /\ \A p \in Pids :
          /\ total_instances[p] = 1
          /\ resources_held[p] = <<p>>
          /\ DOMAIN allocated_to[p] = {p}
          /\ resources_requested[p] = <<((p + 1) % 3) + 1>>

\* C19, its second half: on the chain deadlock, whose process ids are 1..3,
\* preemption returns the negation of a fresh detection for every victim, and
\* preempting the victim's one resource clears the cycle.
C19_ChainPreemption ==
    ChainDeadlock =>
        \A victim \in Pids : \A o \in _resolve_by_preemption(World, victim) :
            /\ o.ret <=> ~rag_deadlocked(o.w)
            /\ o.w # World

\* the chain deadlock is reached and detected
C19_ChainReached ==
    ChainDeadlock /\ rag_deadlocked(World)

\* C20: resolve_deadlock called with a strategy name outside {termination,
\* preemption, rollback} fails with the unknown-strategy error (ValueError) in
\* every state, whether or not a deadlock is detected.
C20_UnknownStrategyRaises ==
    \A priority_based \in BOOLEAN :
        \A o \in resolve_deadlock(World, "other", priority_based) : o.ret = "ValueError"

\* C21: in every reachable state _restore_snapshot(_take_snapshot()) leaves
\* the system as it was: the same pids and rids, and for each the same status,
\* held and requested resource ids, total_instances, available_instances and
\* allocated_to.
C21_SnapshotRoundTrip ==
    LET restored == _restore_snapshot(_take_snapshot(World))
    IN  /\ DOMAIN restored.status = Pids /\ DOMAIN restored.total = Rids
        /\ restored = World

\* a snapshot was just taken or restored (it describes the present state) of a
\* system in which a process waits, instances are allocated and a resource is
\* listed in resources_held without an allocated_to entry
C21_Witness ==
    /\ snapshot # NoSnapshot
    /\ snapshot = _take_snapshot(World)
    /\ _restore_snapshot(snapshot) = World
    /\ \E p \in Pids : status[p] = "WAITING"
    /\ \E r \in Rids : available_instances[r] < total_instances[r]
    /\ \E p \in Pids, r \in Rids :
          r \in Range(resources_held[p]) /\ p \notin DOMAIN allocated_to[r]

GreedyWork(F, r) ==
    LET alloc == [p \in F |-> Allocation(World, p, r)]
    IN  available_instances[r] + DictSum(alloc)

RECURSIVE GreedyFinished(_)
GreedyFinished(F) ==
    LET can == {p \in Pids \ F : \A r \in Rids : Need(World, p, r) <= GreedyWork(F, r)}
    IN  IF can = {} THEN F ELSE GreedyFinished(F \cup can)

\* C24: detect_using_bankers_algorithm returns (False, []) exactly when the
\* greedy scan finishes every process; otherwise it returns True with exactly
\* the pids whose status is WAITING.
C24_BankersResult ==
    LET d == detect_using_bankers_algorithm(World)
        safe == GreedyFinished({}) = Pids
    IN  /\ safe <=> d = [is_deadlocked |-> FALSE, deadlocked_processes |-> <<>>]
        /\ ~safe =>
              /\ d.is_deadlocked
              /\ Injective(d.deadlocked_processes)
              /\ Range(d.deadlocked_processes) = {p \in Pids : status[p] = "WAITING"}

\* an unsafe state: the scan finishes nobody, the waiting processes are
\* returned and a process that is not waiting is left out
C24_Witness ==
    LET d == detect_using_bankers_algorithm(World)
    IN  /\ d.is_deadlocked
        /\ GreedyFinished({}) # Pids
        /\ d.deadlocked_processes # <<>>
        /\ \E p \in Pids : status[p] # "WAITING" /\ p \notin Range(d.deadlocked_processes)

\* a safe state in which the for loop needed a second pass: a process early in
\* the list is finished only with the allocation returned by a later one
C24_WitnessTwoPasses ==
    LET first == ScanPass(World, ProcessList(World),
                          [work |-> available_instances, finish |-> {}, allocated |-> FALSE])
    IN  /\ ~detect_using_bankers_algorithm(World).is_deadlocked
        /\ first.finish # Pids
        /\ GreedyFinished({}) = Pids

\* C23: verify_resolution returns True if and only if the graph has no cycle,
\* the safety check reports safe, every process status is RUNNING or
\* TERMINATED, and every resource has sum(allocated_to) + available_instances
\* equal to total_instances.
C23_VerifyResolution ==
    verify_resolution(World) <=>
        /\ ~HasCycle
        /\ GreedyFinished({}) = Pids
        /\ \A p \in Pids : status[p] = "RUNNING" \/ status[p] = "TERMINATED"
        /\ \A r \in Rids : DictSum(allocated_to[r]) + available_instances[r] = total_instances[r]

\* a strategy has acted on the deadlock of the snapshot and verify_resolution
\* accepts the state it left, in which instances are still allocated
C23_Witness ==
    /\ snapshot # NoSnapshot
    /\ rag_deadlocked(_restore_snapshot(snapshot))
    /\ World # _restore_snapshot(snapshot)
    /\ \E r \in Rids : DOMAIN allocated_to[r] # {}
    /\ verify_resolution(World)

\* the graph has no cycle and the state is safe, yet a process is left
\* WAITING: verify_resolution rejects the state on the status alone
C23_WitnessWaiting ==
    /\ ~HasCycle
    /\ GreedyFinished({}) = Pids
    /\ \E p \in Pids : status[p] = "WAITING"
    /\ ~verify_resolution(World)

\* the victims a strategy can be given in the state w: what _select_process
\* returns for a detection result, leaving out the values on which the strategy
\* returns at once ("if not process_id")
Victims(w) ==
    {v \in UNION {_select_process(w, d.deadlocked_processes, b) :
                    d \in detect_using_resource_allocation_graph(w), b \in BOOLEAN} :
        ~Falsy(v)}

\* C25: after the rollback strategy has acted on a victim, the victim is
\* RUNNING with empty resources_held and resources_requested, every instance
\* it held is available again and no allocated_to entry is left for its pid,
\* and every other process is unchanged.
C25_RollbackEffect ==
    \A victim \in Victims(World) : \A o \in _resolve_by_rollback(World, victim) :
        /\ o.w.status[victim] = "RUNNING"
        /\ o.w.held[victim] = <<>>
        /\ o.w.requested[victim] = <<>>
        /\ \A r \in Rids :
              /\ victim \notin DOMAIN o.w.allocated[r]
              /\ o.w.available[r] = available_instances[r] + DictGet(allocated_to[r], victim)
              /\ \A p \in Pids \ {victim} :
                    DictGet(o.w.allocated[r], p) = DictGet(allocated_to[r], p)
        /\ \A p \in Pids \ {victim} :
              /\ o.w.status[p] = status[p]
              /\ o.w.held[p] = resources_held[p]
              /\ o.w.requested[p] = resources_requested[p]

\* the list s without the occurrences of x
RECURSIVE Without(_, _)
Without(s, x) ==
    IF s = <<>> THEN <<>>
    ELSE (IF Head(s) = x THEN <<>> ELSE <<Head(s)>>) \o Without(Tail(s), x)

\* the state t differs from the present state only in that the process victim
\* has given back all its instances of the resource r
PreemptedOnly(t, victim, r) ==
    /\ victim \notin DOMAIN t.allocated[r]
    /\ t.available[r] = available_instances[r] + DictGet(allocated_to[r], victim)
    /\ \A p \in Pids \ {victim} : DictGet(t.allocated[r], p) = DictGet(allocated_to[r], p)
    /\ \A q \in Rids \ {r} :
          t.allocated[q] = allocated_to[q] /\ t.available[q] = available_instances[q]
    /\ t.total = total_instances
    /\ t.status = status
    /\ t.requested = resources_requested
    /\ Without(t.held[victim], r) = Without(resources_held[victim], r)
    /\ \A p \in Pids \ {victim} : t.held[p] = resources_held[p]

C26_WitnessNothingHeld ==
    \E victim \in Victims(World) :
        /\ resources_held[victim] = <<>>
        /\ _resolve_by_preemption(World, victim) = {[ret |-> FALSE, w |-> World]}

MaxList == 3   \* _select_process is tried on every list of at most MaxList pids

\* the lists of pids _select_process is given
PidLists == UNION {[1..k -> Pids] : k \in 0..MaxList}

\* C27: _select_process returns None for an empty list; with priority_based
\* true it returns the listed pid whose process has the largest
\* len(resources_held), the first such pid of the list on ties; with
\* priority_based false it returns some member of the list.
C27_SelectProcess ==
    \A dp \in PidLists :
        LET count(i) == Len(resources_held[dp[i]])
        IN  /\ dp = <<>> => \A b \in BOOLEAN : _select_process(World, dp, b) = {None}
            /\ dp # <<>> =>
                  /\ \E i \in 1..Len(dp) :
                        /\ _select_process(World, dp, TRUE) = {dp[i]}
                        /\ \A j \in 1..Len(dp) : count(j) <= count(i)
                        /\ \A j \in 1..(i - 1) : count(j) < count(i)
                  /\ _select_process(World, dp, FALSE) # {}
                  /\ _select_process(World, dp, FALSE) \subseteq Range(dp)

\* a deadlock is detected and in some list the process holding most is
\* neither first nor alone: the second of three is selected, the third holds
\* as much
C27_Witness ==
    /\ rag_deadlocked(World)
    /\ \E dp \in PidLists :
          /\ Len(dp) = 3 /\ dp[2] # dp[3]
          /\ Len(resources_held[dp[1]]) < Len(resources_held[dp[2]])
          /\ Len(resources_held[dp[2]]) = Len(resources_held[dp[3]])
          /\ _select_process(World, dp, TRUE) = {dp[2]}

\* C28: in every state reached by requests with instances >= 1 and releases
\* with instances None or >= 1, every value of every allocated_to is a positive
\* integer (an entry whose count drops to zero is removed) and
\* available_instances stays within 0..total_instances.
C28_PositiveCounts ==
    \A r \in Rids :
        /\ \A p \in DOMAIN allocated_to[r] : allocated_to[r][p] >= 1
        /\ 0 <= available_instances[r]
        /\ available_instances[r] <= total_instances[r]

\* a resource was given back in two partial releases: a process has it twice
\* in resources_held, its allocated_to entry is gone and every instance is
\* available, while another resource is fully allocated
C28_Witness ==
    /\ \E p \in Pids, r \in Rids :
          /\ Count(resources_held[p], r) = 2
          /\ allocated_to[r] = EmptyDict
          /\ available_instances[r] = total_instances[r]
    /\ \E r \in Rids : available_instances[r] = 0 /\ DOMAIN allocated_to[r] # {}

\* C29: System.request_resource(pid, rid, n) has the effect and the result of
\* processes[pid].request_resource(resources[rid], n), and
\* System.release_resource(pid, rid, n) those of
\* processes[pid].release_resource(resources[rid], n), for every n; with an
\* unknown pid or rid both return False and change nothing.
C29_SystemDelegates ==
    /\ \A pid \in Pids, rid \in Rids, n \in Instances :
          /\ System_request_resource(World, pid, rid, n) = request_resource(World, pid, rid, n)
          /\ System_release_resource(World, pid, rid, FALSE, n) =
                release_resource(World, pid, rid, FALSE, n)
    /\ \A pid \in Pids, rid \in Rids :
          System_release_resource(World, pid, rid, TRUE, 0) = release_resource(World, pid, rid, TRUE, 0)
    /\ \A pid \in Pids \cup {MaxPid + 1}, rid \in Rids \cup {NumResources + 1}, n \in Instances :
          (pid \notin Pids \/ rid \notin Rids) =>
              /\ System_request_resource(World, pid, rid, n) = [ret |-> FALSE, w |-> World]
              /\ System_release_resource(World, pid, rid, FALSE, n) = [ret |-> FALSE, w |-> World]

C31_DetectorsAgree ==
    (SimpleDeadlock \/ DiningPhilosophers \/ NoDeadlockScenario \/ ChainDeadlock) =>
        \A d \in detect_using_resource_allocation_graph(World) :
            d.is_deadlocked = detect_using_bankers_algorithm(World).is_deadlocked

\* C32 as stated: the value compared against work for process p and resource
\* r is allocation[p][r] + 1 when p requests r and allocation[p][r] otherwise,
\* floored at 1, and a process is finished only when that value is <= work[r]
\* for every resource r (work being at most the available vector plus the
\* allocation rows of the other finished processes).
C32_NeedIsFlooredDemand ==
    LET claimed(p, r) ==
            LET v == Allocation(World, p, r) +
                     (IF r \in Range(resources_requested[p]) THEN 1 ELSE 0)
            IN  IF v >= 1 THEN v ELSE 1
        F == SafeLoop(World, available_instances, {})
    IN  /\ \A p \in Pids, r \in Rids : Need(World, p, r) = claimed(p, r)
        /\ \A p \in F, r \in Rids : claimed(p, r) <= GreedyWork(F \ {p}, r)

\* C32 amended: the value compared against work is that floored value minus
\* allocation[p][r], which is 1 when p requests r or has no instance of r and
\* 0 otherwise; a process is finished only when it is <= work[r] for every
\* resource r, and a process left unfinished has a resource whose value
\* exceeds the final work.
C32_NeedIsDemandMinusAllocation ==
    LET amended(p, r) ==
            IF r \in Range(resources_requested[p]) \/ Allocation(World, p, r) = 0
            THEN 1 ELSE 0
        F == SafeLoop(World, available_instances, {})
    IN  /\ \A p \in Pids, r \in Rids : Need(World, p, r) = amended(p, r)
        /\ \A p \in F, r \in Rids : amended(p, r) <= GreedyWork(F \ {p}, r)
        /\ \A p \in Pids \ F : \E r \in Rids : amended(p, r) > GreedyWork(F, r)

\* a process has every instance of a resource, does not request it and is
\* finished by the scan all the same (its need of that resource is 0 and work
\* is 0), after another process whose allocation went back to work
C32_Witness ==
    LET F == SafeLoop(World, available_instances, {})
    IN  \E p \in F, q \in F, r \in Rids :
            /\ q # p
            /\ Allocation(World, p, r) = total_instances[r]
            /\ r \notin Range(resources_requested[p])
            /\ available_instances[r] = 0
            /\ \E r2 \in Rids : Allocation(World, q, r2) > 0

\* the states a caller can be in after k invocations of
\* resolve_deadlock('termination') from w, none of which returned True
RECURSIVE StillUnresolved(_, _)
StillUnresolved(w, k) ==
    IF k = 0 THEN {w}
    ELSE UNION {{o.w : o \in {x \in resolve_deadlock(v, "termination", pb) : x.ret # "True"}} :
                  v \in StillUnresolved(w, k - 1), pb \in BOOLEAN}

\* C33: from a deadlocked state (process ids any non-negative integers, 0
\* included) each resolve_deadlock('termination') call, in either selection
\* mode, terminates one process of the detected cycle; a call that returns
\* True leaves no cycle; and a caller repeating the call until it returns True
\* makes at most as many calls as there are processes.
C33_TerminationResolves ==
    rag_deadlocked(World) =>
        /\ \A priority_based \in BOOLEAN :
             \A d \in detect_using_resource_allocation_graph(World) :
               \A o \in ResolveDetected(World, "termination", d.deadlocked_processes,
                                        priority_based) :
                  /\ \E p \in Range(d.deadlocked_processes) :
                        /\ o.w.status[p] = "TERMINATED"
                        /\ \A q \in Pids \ {p} : o.w.status[q] = status[q]
                  /\ o.ret = "True" => ~rag_deadlocked(o.w)
        /\ StillUnresolved(World, Cardinality(Pids)) = {}

\* C34: from the two-process circular wait, whenever resolve_deadlock with the
\* termination or the rollback strategy returns True, a verify_resolution
\* call made right after it returns True as well.
C34_ResolvedIsVerified ==
    SimpleDeadlock =>
        \A strategy \in {"termination", "rollback"}, priority_based \in BOOLEAN :
            \A o \in resolve_deadlock(World, strategy, priority_based) :
                o.ret = "True" => verify_resolution(o.w)

\* C35: resolve_deadlock called with a valid strategy on a state without a
\* cycle returns True, leaves every process and resource unchanged and
\* appends nothing to resolution_history; called on a state with a cycle it
\* appends exactly one {strategy, deadlocked_processes} record holding the
\* pids detected at call time.
C35_HistoryRecords ==
    LET detected == detect_using_resource_allocation_graph(World)
        cycle == \E d \in detected : d.is_deadlocked
    IN  \A h \in Histories, strategy \in Strategies, priority_based \in BOOLEAN :
          \A o \in resolve_deadlock_with_history(World, h, strategy, priority_based) :
            IF ~cycle
            THEN o.ret = "True" /\ o.w = World /\ o.resolution_history = h
            ELSE /\ Len(o.resolution_history) = Len(h) + 1
                 /\ SubSeq(o.resolution_history, 1, Len(h)) = h
                 /\ LET rec == o.resolution_history[Len(h) + 1]
                    IN  /\ rec.strategy = strategy
                        /\ \E d \in detected :
                              rec.deadlocked_processes = d.deadlocked_processes

\* a cycle of two processes, a history that already holds a record: a call
\* acts on a victim, removes the cycle, returns True and leaves two records
C35_Witness ==
    /\ \E c \in CyclePidSets(World) : Cardinality(c) = 2
    /\ \E h \in Histories, strategy \in Strategies :
          \E o \in resolve_deadlock_with_history(World, h, strategy, FALSE) :
              /\ Len(h) = 1
              /\ o.ret = "True"
              /\ o.w # World
              /\ ~rag_deadlocked(o.w)
              /\ Len(o.resolution_history) = 2

\* C36: when resolve_deadlock fails because the strategy name is unknown, the
\* system and resolution_history are exactly as they were before the call.
C36_RejectedCallLeavesHistory ==
    \A h \in Histories, priority_based \in BOOLEAN :
        \A o \in resolve_deadlock_with_history(World, h, "other", priority_based) :
            o.ret = "ValueError" => o.w = World /\ o.resolution_history = h

\* C37: in every state reachable by request_resource, release_resource (full
\* or partial) and terminate, detect_using_resource_allocation_graph never
\* lists a TERMINATED process among the deadlocked processes.
C37_NoTerminatedInCycle ==
    \A d \in detect_using_resource_allocation_graph(World) :
        \A p \in Range(d.deadlocked_processes) : status[p] # "TERMINATED"

\* C38: in every reachable state, when detect_using_bankers_algorithm reports
\* a deadlock the returned process list is non-empty: it never reports a
\* deadlock in a state where no process is WAITING.
C38_BankersListNonEmpty ==
    LET d == detect_using_bankers_algorithm(World)
    IN  d.is_deadlocked =>
            /\ d.deadlocked_processes # <<>>
            /\ \E p \in Pids : status[p] = "WAITING"

\* C39: a release never hands the freed instances to a waiter.
\* Process.release_resource and Process.terminate change only the calling
\* process and the counts of the released resources: every other process's
\* status, resources_held, resources_requested and allocations are unchanged
\* (a WAITING process stays WAITING), and so is every resource that the call
\* does not release.
C39_ReleaseFrame ==
    [][\A pid \in Pids :
         LET others_unchanged ==
                 \A q \in Pids \ {pid} :
                     /\ status'[q] = status[q]
                     /\ resources_held'[q] = resources_held[q]
                     /\ resources_requested'[q] = resources_requested[q]
                     /\ \A r \in Rids :
                           DictGet(allocated_to'[r], q) = DictGet(allocated_to[r], q)
             only_released(rs) ==
                 \A r \in Rids \ rs :
                     /\ available_instances'[r] = available_instances[r]
                     /\ allocated_to'[r] = allocated_to[r]
         IN  /\ \A r \in Rids :
                  ((\E n \in Instances : Release(pid, r, n)) \/ ReleaseAll(pid, r)) =>
                      others_unchanged /\ only_released({r})
             /\ Terminate(pid) =>
                  others_unchanged /\ only_released(Range(resources_held[pid]))]_vars

\* every instance of resource 1 is available again, after a release or a
\* termination, and a process that requested it is still WAITING for it
C39_Witness ==
    \E q \in Pids :
        /\ status[q] = "WAITING"
        /\ 1 \in Range(resources_requested[q])
        /\ available_instances[1] = total_instances[1]
        /\ \E p \in Pids \ {q} : status[p] = "TERMINATED" \/ status[p] = "RUNNING"

\* C40: the scenario built by main.create_dining_philosophers(N), N >= 3
\* (each philosopher in turn requests its left fork and then its right fork),
\* ends with every philosopher holding its left fork and waiting for its right
\* fork, and detect_using_resource_allocation_graph reports a deadlock on it.
C40_MainPhilosophersDeadlock ==
    LET n == Cardinality(Pids)
    IN  (/\ n >= 3
         /\ Pids = 1..n /\ Rids = 1..n
         /\ \A r \in Rids : total_instances[r] = 1
         /\ World = main_create_dining_philosophers(NewSystem, 1)) =>
            /\ \A p \in Pids :
                  /\ resources_held[p] = <<p>>
                  /\ resources_requested[p] = <<(p % n) + 1>>
                  /\ status[p] = "WAITING"
            /\ \A d \in detect_using_resource_allocation_graph(World) : d.is_deadlocked

====
